---- MODULE Spec2Model ----
(***************************************************************************)
(* ShaderTypes.h of HoleDisplacement: the binding-slot enumerations and    *)
(* the fixed-layout records shared between the host (Swift/ObjC) and the   *)
(* device (Metal shading language).                                        *)
(*                                                                         *)
(* The header is compiled twice, once per side.  The model lays every      *)
(* struct out the way both compilers do (fields in declaration order, each *)
(* at the next multiple of its alignment, the struct rounded up to its     *)
(* largest alignment), stores records into byte-addressed buffers in       *)
(* little-endian order and loads them back through the same declaration.   *)
(* A float is modelled by its 32-bit pattern: stores and loads move bits.  *)
(* A 32-bit word is the pair <<high half, low half>> of 16-bit numbers.    *)
(***************************************************************************)
EXTENDS Integers, Sequences, FiniteSets, TLC

VARIABLES
    pc,           \* "idle" | "host" | "uploaded" | "read": position in the frame or step
    kind,         \* the struct the buffer of this frame/step holds ("none" before the first)
    n,            \* number of elements in the buffer
    rec,          \* the values the host assigned: element -> field name -> words
    host,         \* the host-side memory image of the elements (bytes)
    dev,          \* the buffer the device reads (bytes)
    sent,         \* rec at the moment of the upload
    readback,     \* what the device decoded from dev
    writes,       \* single-field assignments since the record was constructed
    lastWrite,    \* <<element, field index, array index>> of the last single-field assignment
    assigned,     \* <<element, field name>> of every field the host gave a value
    hostABI,      \* data model of the host build: "LP64" | "ILP32"
    renderTable,  \* argument table of the render encoder: slot -> bound name
    computeTable  \* argument table of the compute encoder: slot -> bound name

vars == <<pc, kind, n, rec, host, dev, sent, readback, writes, lastWrite, assigned,
          hostABI, renderTable, computeTable>>

layoutVars == <<pc, kind, n, rec, host, dev, sent, readback, writes, lastWrite, assigned>>

-----------------------------------------------------------------------------
(* Bounds of the model *)

MaxElems == 2
MaxWrites == 1

-----------------------------------------------------------------------------
(* Enumerations: ShaderTypes.h lines 9-31 *)

HostABIs == {"LP64", "ILP32"}

\* (variant: one 32-bit type on both sides)
EnumBackingTypeSizeInt32(side, abi) == 4

\* sizeof(EnumBackingType) in bytes: metal::int32_t on the device, NSInteger
\* (long under LP64, int under ILP32) on the host.
EnumBackingTypeSize(side, abi) ==
    IF side = "device" THEN 4
    ELSE IF abi = "LP64" THEN 8 ELSE 4

E(name, value) == [name |-> name, value |-> value]

\* (variant: a slot number skipped)
BufferIndexRenumbered ==
    << E("BufferIndexVertices", 0),
       E("BufferIndexInstances", 1),
       E("BufferIndexUniforms", 3) >>

BufferIndex ==
    << E("BufferIndexVertices", 0),
       E("BufferIndexInstances", 1),
       E("BufferIndexUniforms", 2) >>

SimulationBufferIndex ==
    << E("SimulationBufferIndexRestPositions", 0),
       E("SimulationBufferIndexStates", 1),
       E("SimulationBufferIndexInstances", 2),
       E("SimulationBufferIndexUniforms", 3),
       E("SimulationBufferIndexTouches", 4) >>

EnumNames(enum) == {enum[i].name : i \in 1..Len(enum)}
EnumValues(enum) == {enum[i].value : i \in 1..Len(enum)}
EnumValue(enum, name) == enum[CHOOSE i \in 1..Len(enum) : enum[i].name = name].value

\* An enumerator as the given side holds it: a two's-complement integer of the
\* width of EnumBackingType on that side.
\* (An enumerator of the model is below 2^31, so a type of 4 bytes or more
\* holds it unchanged.)
Pow2(k) == 2 ^ k
AsBackingType(v, side, abi) ==
    IF EnumBackingTypeSize(side, abi) >= 4 THEN v
    ELSE v % Pow2(8 * EnumBackingTypeSize(side, abi))

-----------------------------------------------------------------------------
(* Types of <simd/simd.h> and the scalar types, as both sides lay them out *)

TypeComponents(t) ==
    CASE t = "float" -> 1
      [] t = "uint" -> 1
      [] t = "vector_float2" -> 2
      [] t = "vector_float4" -> 4

\* float and uint are 32 bits wide
ScalarSize == 4

\* a packed vector of 2 or 4 floats
TypeSize(t) == TypeComponents(t) * ScalarSize

\* a simd vector is aligned to its own size
TypeAlign(t) == TypeSize(t)

-----------------------------------------------------------------------------
(* Struct declarations: ShaderTypes.h lines 33-67 *)

F(name, type, count) == [name |-> name, type |-> type, count |-> count]

\* (variant: a scalar added after the vector)
DotInstanceUniformFieldsWithRadius ==
    << F("center", "vector_float2", 1),
       F("radius", "float", 1) >>

DotInstanceUniformFields ==
    << F("center", "vector_float2", 1) >>

\* (variant: the explicit padding field left out)
FrameUniformsFieldsNoPadding ==
    << F("canvasSize", "vector_float2", 1),
       F("dotRadius", "float", 1),
       F("smoothing", "float", 1),
       F("gradientStart", "vector_float2", 1),
       F("gradientEnd", "vector_float2", 1),
       F("time", "float", 1),
       F("driftStrength", "float", 1),
       F("gradientStopCount", "uint", 1),
       F("gradientStops", "vector_float4", 1),
       F("gradientColors", "vector_float4", 4) >>

\* (variant: room for 3 colors)
FrameUniformsFieldsThreeColors ==
    << F("canvasSize", "vector_float2", 1),
       F("dotRadius", "float", 1),
       F("smoothing", "float", 1),
       F("gradientStart", "vector_float2", 1),
       F("gradientEnd", "vector_float2", 1),
       F("time", "float", 1),
       F("driftStrength", "float", 1),
       F("gradientStopCount", "uint", 1),
       F("_padding", "uint", 1),
       F("gradientStops", "vector_float4", 1),
       F("gradientColors", "vector_float4", 3) >>

\* (variant: room for 5 colors)
FrameUniformsFieldsFiveColors ==
    << F("canvasSize", "vector_float2", 1),
       F("dotRadius", "float", 1),
       F("smoothing", "float", 1),
       F("gradientStart", "vector_float2", 1),
       F("gradientEnd", "vector_float2", 1),
       F("time", "float", 1),
       F("driftStrength", "float", 1),
       F("gradientStopCount", "uint", 1),
       F("_padding", "uint", 1),
       F("gradientStops", "vector_float4", 1),
       F("gradientColors", "vector_float4", 5) >>

\* (variant: the stops packed in a 2-component vector)
FrameUniformsFieldsTwoStops ==
    << F("canvasSize", "vector_float2", 1),
       F("dotRadius", "float", 1),
       F("smoothing", "float", 1),
       F("gradientStart", "vector_float2", 1),
       F("gradientEnd", "vector_float2", 1),
       F("time", "float", 1),
       F("driftStrength", "float", 1),
       F("gradientStopCount", "uint", 1),
       F("_padding", "uint", 1),
       F("gradientStops", "vector_float2", 1),
       F("gradientColors", "vector_float4", 4) >>

FrameUniformsFields ==
    << F("canvasSize", "vector_float2", 1),
       F("dotRadius", "float", 1),
       F("smoothing", "float", 1),
       F("gradientStart", "vector_float2", 1),
       F("gradientEnd", "vector_float2", 1),
       F("time", "float", 1),
       F("driftStrength", "float", 1),
       F("gradientStopCount", "uint", 1),
       F("_padding", "uint", 1),
       F("gradientStops", "vector_float4", 1),
       F("gradientColors", "vector_float4", 4) >>

\* (variant: the velocity declared as a 4-component vector)
SimulationDotStateFieldsWideVelocity ==
    << F("offset", "vector_float2", 1),
       F("velocity", "vector_float4", 1) >>

SimulationDotStateFields ==
    << F("offset", "vector_float2", 1),
       F("velocity", "vector_float2", 1) >>

SimulationTouchFields ==
    << F("position", "vector_float4", 1) >>

\* (variant: the last padding field left out)
SimulationUniformsFieldsOnePadding ==
    << F("timeSpring", "vector_float4", 1),
       F("displacementMass", "vector_float4", 1),
       F("touchCount", "uint", 1),
       F("dotCount", "uint", 1),
       F("padding0", "uint", 1) >>

SimulationUniformsFields ==
    << F("timeSpring", "vector_float4", 1),
       F("displacementMass", "vector_float4", 1),
       F("touchCount", "uint", 1),
       F("dotCount", "uint", 1),
       F("padding0", "uint", 1),
       F("padding1", "uint", 1) >>

Kinds == {"DotInstanceUniform", "FrameUniforms", "SimulationDotState",
          "SimulationTouch", "SimulationUniforms"}

\* the records that are used as arrays, one element per dot or per touch
ArrayKinds == {"DotInstanceUniform", "SimulationDotState", "SimulationTouch"}

StructFields(k) ==
    CASE k = "DotInstanceUniform" -> DotInstanceUniformFields
      [] k = "FrameUniforms" -> FrameUniformsFields
      [] k = "SimulationDotState" -> SimulationDotStateFields
      [] k = "SimulationTouch" -> SimulationTouchFields
      [] k = "SimulationUniforms" -> SimulationUniformsFields

\* fields whose only purpose is to make the padding explicit
PaddingFields == {"_padding", "padding0", "padding1"}

-----------------------------------------------------------------------------
(* The layout both compilers compute for a struct declaration *)

Max(S) == CHOOSE x \in S : \A y \in S : y <= x

AlignUp(x, a) == ((x + a - 1) \div a) * a

FieldSize(f) == TypeSize(f.type) * f.count

FieldWords(f) == TypeComponents(f.type) * f.count

RECURSIVE OffsetAt(_, _), EndOf(_, _)
OffsetAt(fs, k) ==
    AlignUp(IF k = 1 THEN 0 ELSE EndOf(fs, k - 1), TypeAlign(fs[k].type))
EndOf(fs, k) == OffsetAt(fs, k) + FieldSize(fs[k])

StructAlign(fs) == Max({TypeAlign(fs[k].type) : k \in 1..Len(fs)})

SizeOf(fs) == AlignUp(EndOf(fs, Len(fs)), StructAlign(fs))

\* offsets, size and alignment of every struct of the header
Layout ==
    [k \in Kinds |->
        [offset |-> [i \in 1..Len(StructFields(k)) |-> OffsetAt(StructFields(k), i)],
         size   |-> SizeOf(StructFields(k)),
         align  |-> StructAlign(StructFields(k))]]

FieldIndex(k, name) ==
    CHOOSE i \in 1..Len(StructFields(k)) : StructFields(k)[i].name = name

FieldCount(k) == IF k \in Kinds THEN Len(StructFields(k)) ELSE 0

FieldNames(k) == {StructFields(k)[i].name : i \in 1..Len(StructFields(k))}

\* (variant: every field taken to be one scalar wide)
AddressOfPacked(k, e, i, j) ==
    (e - 1) * Layout[k].size + (i - 1) * ScalarSize + j * TypeSize(StructFields(k)[i].type)

\* byte address, relative to the start of the buffer, of array index j of
\* field i of element e (e is 1-based, j is 0-based)
AddressOf(k, e, i, j) ==
    (e - 1) * Layout[k].size + Layout[k].offset[i] + j * TypeSize(StructFields(k)[i].type)

-----------------------------------------------------------------------------
(* Byte-addressed memory, little-endian 32-bit words *)

UInt(v) == <<v \div 65536, v % 65536>>

\* byte b (0 = least significant) of word w
ByteOf(w, b) ==
    IF b < 2 THEN (w[2] \div Pow2(8 * b)) % 256
    ELSE (w[1] \div Pow2(8 * (b - 2))) % 256

WordAt(mem, addr) ==
    << mem[addr + 3] + 256 * mem[addr + 4], mem[addr + 1] + 256 * mem[addr + 2] >>

LoadWords(mem, addr, cnt) == [w \in 1..cnt |-> WordAt(mem, addr + ScalarSize * (w - 1))]

StoreWords(mem, addr, words) ==
    [p \in 1..Len(mem) |->
        IF addr < p /\ p <= addr + ScalarSize * Len(words)
        THEN ByteOf(words[((p - 1 - addr) \div ScalarSize) + 1], (p - 1 - addr) % ScalarSize)
        ELSE mem[p]]

\* the fields of record r stored one after the other, in declaration order,
\* into element e of mem
RECURSIVE StoreRecordFrom(_, _, _, _, _)
StoreRecordFrom(mem, k, e, r, i) ==
    IF i > Len(StructFields(k)) THEN mem
    ELSE StoreRecordFrom(StoreWords(mem, AddressOf(k, e, i, 0), r[StructFields(k)[i].name]),
                         k, e, r, i + 1)

RECURSIVE StoreElementsFrom(_, _, _, _)
StoreElementsFrom(mem, k, rs, e) ==
    IF e > Len(rs) THEN mem
    ELSE StoreElementsFrom(StoreRecordFrom(mem, k, e, rs[e], 1), k, rs, e + 1)

\* the memory image of the records rs; a byte no field covers keeps the value
\* fill, which the language leaves indeterminate
Image(k, rs, fill) ==
    StoreElementsFrom([p \in 1..(Len(rs) * Layout[k].size) |-> fill], k, rs, 1)

\* element e of mem read through the declaration of struct k
LoadRecord(mem, k, e) ==
    [name \in FieldNames(k) |->
        LoadWords(mem, AddressOf(k, e, FieldIndex(k, name), 0),
                  FieldWords(StructFields(k)[FieldIndex(k, name)]))]

LoadElements(mem, k, cnt) == [e \in 1..cnt |-> LoadRecord(mem, k, e)]

\* values an indeterminate byte is observed with
PadFill == {0, 170}

-----------------------------------------------------------------------------
(* The host: producing records *)

\* number of elements of gradientColors
GradientColorsCapacity ==
    StructFields("FrameUniforms")[FieldIndex("FrameUniforms", "gradientColors")].count

\* the stop counts the producer stores: it never announces more stops than
\* gradientColors can hold
StopCounts == {UInt(c) : c \in 0..GradientColorsCapacity}

\* a 32-bit pattern that differs for every element, field and word, and whose
\* four bytes differ from each other
PatternWord(e, i, w) ==
    << (16 + e) * 256 + (128 + i), (64 + w) * 256 + (w + 1) >>

\* what the constructor gives field i of element e: the padding fields are not
\* passed and default to 0
InitialWords(k, e, i, c) ==
    LET f == StructFields(k)[i]
    IN  IF f.name \in PaddingFields THEN [w \in 1..FieldWords(f) |-> UInt(0)]
        ELSE IF f.name = "gradientStopCount" THEN <<c>>
        ELSE [w \in 1..FieldWords(f) |-> PatternWord(e, i, w)]

\* the word a single-field assignment stores (0xA1B2C3D4; component w of a
\* vector gets the word plus w - 1)
WriteWords == {<<41394, 50132>>}

AssignedWords(k, i, v) ==
    LET f == StructFields(k)[i]
    IN  [w \in 1..TypeComponents(f.type) |-> <<v[1], (v[2] + w - 1) % 65536>>]

AssignableValues(k, i) ==
    IF StructFields(k)[i].name = "gradientStopCount" THEN StopCounts ELSE WriteWords

Construct(k, cnt, c) ==
    /\ pc = "idle"
    /\ cnt \in 1..(IF k \in ArrayKinds THEN MaxElems ELSE 1)
    /\ c \in (IF k = "FrameUniforms" THEN StopCounts ELSE {UInt(0)})
    /\ LET rs == [e \in 1..cnt |->
                    [name \in FieldNames(k) |->
                        InitialWords(k, e, FieldIndex(k, name), c)]]
       IN  /\ rec' = rs
           /\ host' \in {Image(k, rs, fill) : fill \in PadFill}
           /\ dev' = [p \in 1..(cnt * Layout[k].size) |-> 0]
    /\ kind' = k
    /\ n' = cnt
    /\ sent' = <<>>
    /\ readback' = <<>>
    /\ writes' = 0
    /\ lastWrite' = <<>>
    /\ assigned' = {<<e, name>> : e \in 1..cnt, name \in FieldNames(k) \ PaddingFields}
    /\ pc' = "host"
    /\ UNCHANGED <<hostABI, renderTable, computeTable>>

\* record.field = value, or record.field[j] = value for an array field
WriteField(e, i, j, v) ==
    /\ pc \in {"host", "uploaded"}
    /\ writes < MaxWrites
    /\ e \in 1..n
    /\ i \in 1..Len(StructFields(kind))
    /\ j \in 0..(StructFields(kind)[i].count - 1)
    /\ v \in AssignableValues(kind, i)
    /\ LET f == StructFields(kind)[i]
           c == TypeComponents(f.type)
           ws == AssignedWords(kind, i, v)
       IN  /\ rec' = [rec EXCEPT ![e][f.name] =
                        [w \in 1..Len(@) |->
                            IF j * c < w /\ w <= (j + 1) * c THEN ws[w - j * c] ELSE @[w]]]
           /\ host' = StoreWords(host, AddressOf(kind, e, i, j), ws)
    /\ writes' = writes + 1
    /\ lastWrite' = <<e, i, j>>
    /\ assigned' = assigned \cup {<<e, StructFields(kind)[i].name>>}
    /\ UNCHANGED <<pc, kind, n, dev, sent, readback, hostABI, renderTable, computeTable>>

AssignField ==
    \E e \in 1..n, i \in 1..FieldCount(kind) :
        \E j \in 0..(StructFields(kind)[i].count - 1), v \in AssignableValues(kind, i) :
            WriteField(e, i, j, v)

\* the records are copied into the buffer the device reads: either the bytes
\* as they are, or record by record, which leaves bytes outside every field
\* indeterminate
Upload ==
    /\ pc = "host"
    /\ dev' \in {host} \cup {Image(kind, LoadElements(host, kind, n), fill) : fill \in PadFill}
    /\ sent' = rec
    /\ pc' = "uploaded"
    /\ UNCHANGED <<kind, n, rec, host, readback, writes, lastWrite, assigned,
                   hostABI, renderTable, computeTable>>

(* The device: reading the buffer through the same declarations *)
DeviceRead ==
    /\ pc = "uploaded"
    /\ readback' = LoadElements(dev, kind, n)
    /\ pc' = "read"
    /\ UNCHANGED <<kind, n, rec, host, dev, sent, writes, lastWrite, assigned,
                   hostABI, renderTable, computeTable>>

\* the frame or step is over: the records and the buffer are discarded
EndFrame ==
    /\ pc = "read"
    /\ pc' = "idle"
    /\ kind' = "none"
    /\ n' = 0
    /\ rec' = <<>>
    /\ host' = <<>>
    /\ dev' = <<>>
    /\ sent' = <<>>
    /\ readback' = <<>>
    /\ writes' = 0
    /\ lastWrite' = <<>>
    /\ assigned' = {}
    /\ UNCHANGED <<hostABI, renderTable, computeTable>>

-----------------------------------------------------------------------------
(* Binding buffers to the slots the enumerations name *)

\* the host passes the enumerator, held in its EnumBackingType, as the index
SetBuffer(table, enum, name) ==
    LET slot == AsBackingType(EnumValue(enum, name), "host", hostABI)
    IN  {b \in table : b[1] # slot} \cup {<<slot, name>>}

SetVertexBuffer(name) ==
    /\ name \in EnumNames(BufferIndex)
    /\ renderTable' = SetBuffer(renderTable, BufferIndex, name)
    /\ renderTable' # renderTable
    /\ UNCHANGED <<computeTable, hostABI>>
    /\ UNCHANGED layoutVars

SetComputeBuffer(name) ==
    /\ name \in EnumNames(SimulationBufferIndex)
    /\ computeTable' = SetBuffer(computeTable, SimulationBufferIndex, name)
    /\ computeTable' # computeTable
    /\ UNCHANGED <<renderTable, hostABI>>
    /\ UNCHANGED layoutVars

\* the name the device finds at the slot its own declaration [[buffer(name)]] gives
DeviceArgument(table, enum, name) ==
    {b[2] : b \in {x \in table :
                     x[1] = AsBackingType(EnumValue(enum, name), "device", hostABI)}}

-----------------------------------------------------------------------------
(* Specifications *)

Init ==
    /\ pc = "idle"
    /\ kind = "none"
    /\ n = 0
    /\ rec = <<>>
    /\ host = <<>>
    /\ dev = <<>>
    /\ sent = <<>>
    /\ readback = <<>>
    /\ writes = 0
    /\ lastWrite = <<>>
    /\ assigned = {}
    /\ hostABI \in HostABIs
    /\ renderTable = {}
    /\ computeTable = {}

Next ==
    \/ \E k \in Kinds, cnt \in 1..MaxElems, c \in StopCounts :
          Construct(k, cnt, c)
    \/ AssignField
    \/ Upload
    \/ DeviceRead
    \/ EndFrame

Spec == Init /\ [][Next]_vars

NextBind ==
    \/ \E name \in EnumNames(BufferIndex) : SetVertexBuffer(name)
    \/ \E name \in EnumNames(SimulationBufferIndex) : SetComputeBuffer(name)

SpecBind == Init /\ [][NextBind]_vars

-----------------------------------------------------------------------------
(* Helpers of the properties *)

RECURSIVE SumSizes(_, _)
SumSizes(fs, k) == IF k = 0 THEN 0 ELSE SumSizes(fs, k - 1) + FieldSize(fs[k])

NamesInOrder(fs) == [i \in 1..Len(fs) |-> fs[i].name]

\* the fields of struct k whose byte range holds byte p of the record
FieldsCovering(k, p) ==
    {i \in 1..Len(StructFields(k)) :
        /\ Layout[k].offset[i] <= p
        /\ p < Layout[k].offset[i] + FieldSize(StructFields(k)[i])}

\* the words found in mem at byte offset off of element e, whose elements are stride apart
WordsAtOffset(mem, stride, e, off, cnt) == LoadWords(mem, (e - 1) * stride + off, cnt)

\* in the state, every field named by offsets is found at the offset given for
\* it, in a record of size bytes
FoundAt(k, offsets, size) ==
    kind = k =>
        /\ Len(host) = n * size
        /\ \A e \in 1..n, name \in DOMAIN offsets :
              WordsAtOffset(host, size, e, offsets[name], Len(rec[e][name])) = rec[e][name]

-----------------------------------------------------------------------------
(* C1 *)

\* C1: BufferIndex is exactly Vertices=0, Instances=1, Uniforms=2 and
\* SimulationBufferIndex exactly RestPositions=0, States=1, Instances=2,
\* Uniforms=3, Touches=4; in each enumeration no two names share a value and
\* the values are exactly 0..n-1, so every name bound in an argument table
\* sits in its own slot, and the slots in use lie in 0..n-1.
C1_EnumerationsGapFree ==
    /\ BufferIndex = << E("BufferIndexVertices", 0), E("BufferIndexInstances", 1),
                        E("BufferIndexUniforms", 2) >>
    /\ SimulationBufferIndex =
          << E("SimulationBufferIndexRestPositions", 0), E("SimulationBufferIndexStates", 1),
             E("SimulationBufferIndexInstances", 2), E("SimulationBufferIndexUniforms", 3),
             E("SimulationBufferIndexTouches", 4) >>
    /\ \A enum \in {BufferIndex, SimulationBufferIndex} :
          /\ Cardinality(EnumNames(enum)) = Len(enum)
          /\ Cardinality(EnumValues(enum)) = Len(enum)
          /\ EnumValues(enum) = 0..(Len(enum) - 1)
    /\ \A b \in renderTable : b[1] \in 0..2 /\ b[1] = EnumValue(BufferIndex, b[2])
    /\ \A b \in computeTable : b[1] \in 0..4 /\ b[1] = EnumValue(SimulationBufferIndex, b[2])
    /\ \A b1, b2 \in renderTable \cup computeTable :
          (b1[2] = b2[2]) => (b1[1] = b2[1])

\* every name of both enumerations is bound at the same time
C1_AllSlotsBound ==
    /\ {b[2] : b \in renderTable} = EnumNames(BufferIndex)
    /\ {b[2] : b \in computeTable} = EnumNames(SimulationBufferIndex)
    /\ {b[1] : b \in renderTable} = 0..2
    /\ {b[1] : b \in computeTable} = 0..4

-----------------------------------------------------------------------------
(* C2 *)

\* C2 as stated: EnumBackingType has the same byte width on the host side and
\* on the device side.
C2_SameWidthOnBothSides ==
    EnumBackingTypeSize("host", hostABI) = EnumBackingTypeSize("device", hostABI)

\* C2 amended: EnumBackingType is 4 bytes on the device and the width of
\* NSInteger on the host, 8 bytes in a 64-bit (LP64) build and 4 bytes in a
\* 32-bit build, so the widths agree only in a 32-bit host build; every
\* enumerator has the same value in both types, and the device finds each
\* buffer in the slot where the host bound it.
C2_WidthsPerSide ==
    /\ EnumBackingTypeSize("device", hostABI) = 4
    /\ EnumBackingTypeSize("host", hostABI) = (IF hostABI = "LP64" THEN 8 ELSE 4)
    /\ C2_SameWidthOnBothSides <=> (hostABI = "ILP32")
    /\ \A v \in EnumValues(BufferIndex) \cup EnumValues(SimulationBufferIndex) :
          /\ AsBackingType(v, "host", hostABI) = v
          /\ AsBackingType(v, "device", hostABI) = v
    /\ \A b \in renderTable : DeviceArgument(renderTable, BufferIndex, b[2]) = {b[2]}
    /\ \A b \in computeTable :
          DeviceArgument(computeTable, SimulationBufferIndex, b[2]) = {b[2]}

\* a 64-bit host build in which every compute slot is bound
C2_BoundOn64BitHost ==
    /\ hostABI = "LP64"
    /\ EnumBackingTypeSize("host", hostABI) # EnumBackingTypeSize("device", hostABI)
    /\ Cardinality(computeTable) = Len(SimulationBufferIndex)

-----------------------------------------------------------------------------
(* C3, C4 *)

\* C3: the fields of FrameUniforms, placed in declaration order at their
\* natural alignment, are at canvasSize=0, dotRadius=8, smoothing=12,
\* gradientStart=16, gradientEnd=24, time=32, driftStrength=36,
\* gradientStopCount=40, _padding=44, gradientStops=48, gradientColors=64 and
\* the struct is 128 bytes, the sum of its field sizes; gradientStops is on a
\* 16-byte boundary; and every value the host gave a field is found in the
\* record's bytes at that offset.
C3_FrameUniformsLayout ==
    /\ NamesInOrder(FrameUniformsFields) =
          << "canvasSize", "dotRadius", "smoothing", "gradientStart", "gradientEnd", "time",
             "driftStrength", "gradientStopCount", "_padding", "gradientStops",
             "gradientColors" >>
    /\ Layout["FrameUniforms"].offset = << 0, 8, 12, 16, 24, 32, 36, 40, 44, 48, 64 >>
    /\ Layout["FrameUniforms"].size = 128
    /\ SumSizes(FrameUniformsFields, Len(FrameUniformsFields)) = 128
    /\ Layout["FrameUniforms"].offset[FieldIndex("FrameUniforms", "gradientStops")] % 16 = 0
    /\ FoundAt("FrameUniforms",
               [canvasSize |-> 0, dotRadius |-> 8, smoothing |-> 12, gradientStart |-> 16,
                gradientEnd |-> 24, time |-> 32, driftStrength |-> 36,
                gradientStopCount |-> 40, _padding |-> 44, gradientStops |-> 48,
                gradientColors |-> 64],
               128)

\* a FrameUniforms record whose gradientStops was assigned on its own and uploaded
C3_FrameUniformsWritten ==
    /\ kind = "FrameUniforms"
    /\ pc = "uploaded"
    /\ lastWrite = <<1, FieldIndex("FrameUniforms", "gradientStops"), 0>>
    /\ LoadWords(dev, 48, 4) = rec[1]["gradientStops"]

\* C4: the fields of SimulationUniforms are at timeSpring=0,
\* displacementMass=16, touchCount=32, dotCount=36, padding0=40, padding1=44
\* and the struct is 48 bytes, a multiple of its 16-byte alignment and the sum
\* of its field sizes, so there is no implicit tail padding; and every value
\* the host gave a field is found in the record's bytes at that offset.
C4_SimulationUniformsLayout ==
    /\ NamesInOrder(SimulationUniformsFields) =
          << "timeSpring", "displacementMass", "touchCount", "dotCount", "padding0",
             "padding1" >>
    /\ Layout["SimulationUniforms"].offset = << 0, 16, 32, 36, 40, 44 >>
    /\ Layout["SimulationUniforms"].size = 48
    /\ Layout["SimulationUniforms"].align = 16
    /\ Layout["SimulationUniforms"].size % Layout["SimulationUniforms"].align = 0
    /\ SumSizes(SimulationUniformsFields, Len(SimulationUniformsFields)) = 48
    /\ EndOf(SimulationUniformsFields, Len(SimulationUniformsFields)) = 48
    /\ FoundAt("SimulationUniforms",
               [timeSpring |-> 0, displacementMass |-> 16, touchCount |-> 32,
                dotCount |-> 36, padding0 |-> 40, padding1 |-> 44],
               48)

\* a SimulationUniforms record whose dotCount was assigned on its own
C4_SimulationUniformsWritten ==
    /\ kind = "SimulationUniforms"
    /\ pc = "host"
    /\ lastWrite = <<1, FieldIndex("SimulationUniforms", "dotCount"), 0>>
    /\ LoadWords(host, 36, 1) = << <<41394, 50132>> >>

-----------------------------------------------------------------------------
(* C5 *)

-----------------------------------------------------------------------------
(* C6, C7, C9 *)

GradientColor(r, j) == SubSeq(r["gradientColors"], 4 * j + 1, 4 * j + 4)

\* C6: gradientColors holds exactly 4 colors; a FrameUniforms record with
\* gradientStopCount = 4 and 4 pairwise distinct colors is read back with the
\* 4 colors unchanged at the same indices, and gradientStopCount = 0 is read
\* back as 0.
C6_GradientColorsRoundTrip ==
    /\ GradientColorsCapacity = 4
    /\ (pc = "read" /\ kind = "FrameUniforms") =>
          /\ Len(sent[1]["gradientColors"]) = 4 * 4
          /\ ( /\ sent[1]["gradientStopCount"] = <<UInt(4)>>
               /\ \A j1, j2 \in 0..3 :
                     j1 # j2 => GradientColor(sent[1], j1) # GradientColor(sent[1], j2) )
             => /\ readback[1]["gradientStopCount"] = <<UInt(4)>>
                /\ \A j \in 0..3 : GradientColor(readback[1], j) = GradientColor(sent[1], j)
                /\ \A j \in 0..3 : LoadWords(dev, 64 + 16 * j, 4) = GradientColor(sent[1], j)
          /\ sent[1]["gradientStopCount"] = <<UInt(0)>>
             => readback[1]["gradientStopCount"] = <<UInt(0)>>

\* a FrameUniforms record with 4 stops and 4 pairwise distinct colors, read back
C6_FourColorsReadBack ==
    /\ pc = "read"
    /\ kind = "FrameUniforms"
    /\ sent[1]["gradientStopCount"] = <<UInt(4)>>
    /\ \A j1, j2 \in 0..3 :
          j1 # j2 => GradientColor(sent[1], j1) # GradientColor(sent[1], j2)
    /\ lastWrite = <<1, FieldIndex("FrameUniforms", "gradientColors"), 3>>
    /\ host = dev

\* the stop count a record image holds, or -1 when it does not fit 16 bits
StopCountOf(r) ==
    IF r["gradientStopCount"][1][1] = 0 THEN r["gradientStopCount"][1][2] ELSE -1

C9_StopsMatchColors ==
    /\ TypeComponents(StructFields("FrameUniforms")
                        [FieldIndex("FrameUniforms", "gradientStops")].type) = 4
    /\ GradientColorsCapacity = 4
    /\ kind = "FrameUniforms" =>
          \A i \in 0..(StopCountOf(LoadRecord(host, kind, 1)) - 1) :
             LET stops == FieldIndex("FrameUniforms", "gradientStops")
                 colors == FieldIndex("FrameUniforms", "gradientColors")
             IN  /\ 0 <= AddressOf(kind, 1, stops, 0) + ScalarSize * i
                 /\ AddressOf(kind, 1, stops, 0) + ScalarSize * (i + 1) <= Layout[kind].size
                 /\ AddressOf(kind, 1, stops, 0) + ScalarSize * (i + 1)
                       <= AddressOf(kind, 1, stops, 0) + FieldSize(StructFields(kind)[stops])
                 /\ AddressOf(kind, 1, colors, i + 1) <= Layout[kind].size
                 /\ i < StructFields(kind)[colors].count
                 /\ LoadWords(host, AddressOf(kind, 1, stops, 0) + ScalarSize * i, 1)
                       = <<rec[1]["gradientStops"][i + 1]>>
                 /\ LoadWords(host, AddressOf(kind, 1, colors, i), 4) = GradientColor(rec[1], i)

\* a FrameUniforms record with 4 stops whose last color was assigned on its own
C9_LastStopAndColor ==
    /\ kind = "FrameUniforms"
    /\ pc = "host"
    /\ StopCountOf(LoadRecord(host, kind, 1)) = 4
    /\ lastWrite = <<1, FieldIndex("FrameUniforms", "gradientColors"), 3>>

-----------------------------------------------------------------------------
(* C8 *)

\* C8: the records used as arrays have a stride equal to the sum of their
\* field sizes: DotInstanceUniform 8 bytes (center at 0), SimulationDotState
\* 16 bytes (offset at 0, velocity at 8), SimulationTouch 16 bytes (position
\* at 0); element i of each array starts at byte i times that size and holds
\* what the host gave element i, and index i of the SimulationDotState array
\* and index i of the DotInstanceUniform array are the same dot.
C8_ArrayStrides ==
    /\ Layout["DotInstanceUniform"].size = 8
    /\ Layout["DotInstanceUniform"].offset = << 0 >>
    /\ Layout["SimulationDotState"].size = 16
    /\ Layout["SimulationDotState"].offset = << 0, 8 >>
    /\ Layout["SimulationTouch"].size = 16
    /\ Layout["SimulationTouch"].offset = << 0 >>
    /\ \A k \in ArrayKinds :
          Layout[k].size = SumSizes(StructFields(k), Len(StructFields(k)))
    /\ FoundAt("DotInstanceUniform", [center |-> 0], 8)
    /\ FoundAt("SimulationDotState", [offset |-> 0, velocity |-> 8], 16)
    /\ FoundAt("SimulationTouch", [position |-> 0], 16)
    /\ kind \in ArrayKinds =>
          \A e \in 1..n :
             /\ AddressOf(kind, e, 1, 0) = (e - 1) * Layout[kind].size
             /\ AddressOf("SimulationDotState", e, 1, 0) \div 16
                   = AddressOf("DotInstanceUniform", e, 1, 0) \div 8
             /\ AddressOf("SimulationDotState", e, 1, 0) \div 16 = e - 1
             /\ pc = "read" => readback[e] = sent[e]

\* a SimulationDotState array of more than one element, the velocity of its
\* last element assigned on its own, read by the device
C8_LastDotStateRead ==
    /\ kind = "SimulationDotState"
    /\ n > 1
    /\ pc = "read"
    /\ lastWrite = <<n, FieldIndex("SimulationDotState", "velocity"), 0>>
    /\ host = dev
    /\ LoadWords(dev, (n - 1) * 16 + 8, 2) = readback[n]["velocity"]

-----------------------------------------------------------------------------
(* C10 *)

\* the words of array index j of field i of element e in mem
SlotWords(mem, e, i, j) ==
    LoadWords(mem, AddressOf(kind, e, i, j), TypeComponents(StructFields(kind)[i].type))

Slots ==
    UNION {{<<e, i, j>> : j \in 0..(StructFields(kind)[i].count - 1)} :
              e \in 1..n, i \in 1..FieldCount(kind)}

\* every byte of every struct belongs to exactly one field
C10_FieldsPartitionRecord ==
    \A k \in Kinds :
        \A p \in 0..(Layout[k].size - 1) : Cardinality(FieldsCovering(k, p)) = 1

\* two images of the same records are equal byte for byte exactly when they
\* are equal field by field
C10_BytesEqualIffFieldsEqual ==
    pc \in {"uploaded", "read"} =>
        ((host = dev) <=> (LoadElements(host, kind, n) = LoadElements(dev, kind, n)))

\* an assignment to one field changes that field alone
C10_AssignmentStep ==
    (writes' = writes + 1) =>
        /\ lastWrite' \in Slots
        /\ \A s \in Slots :
              s # lastWrite' => SlotWords(host', s[1], s[2], s[3]) = SlotWords(host, s[1], s[2], s[3])
        /\ LoadElements(host', kind, n) = rec'
        /\ dev' = dev

\* C10: in each struct the byte ranges of the fields are pairwise disjoint and
\* cover the whole record, so assigning any one field (a reserved one
\* included) leaves every other field of the record unchanged, and two
\* records are equal byte for byte exactly when they are equal field by field.
C10_FieldsIndependent ==
    /\ [](C10_FieldsPartitionRecord /\ C10_BytesEqualIffFieldsEqual)
    /\ [][C10_AssignmentStep]_vars

\* a reserved field (padding0) assigned after the upload: the host record and
\* the buffer now differ in that field alone
C10_ReservedFieldAssigned ==
    /\ kind = "SimulationUniforms"
    /\ pc = "uploaded"
    /\ lastWrite = <<1, FieldIndex("SimulationUniforms", "padding0"), 0>>
    /\ host # dev
    /\ \A s \in Slots :
          s # lastWrite => SlotWords(host, s[1], s[2], s[3]) = SlotWords(dev, s[1], s[2], s[3])

====
